---------------------------- MODULE Spec2Model ----------------------------
(***************************************************************************)
(* Machining cost calculators: the turning cost function of calcy.py, its  *)
(* bulk and single-part Calculate paths, the inline turning computation of *)
(* new.py and the thread rolling computation of thread_calculator.py.      *)
(*                                                                         *)
(* Numbers.  The programs compute with Python floats.  The model computes  *)
(* exactly: a finite number is m/pi + z + p*pi with rational m, z, p,      *)
(* which is closed under every operation the three files perform.  Beside  *)
(* the finite numbers a value is +inf, -inf or nan (IEEE-754), a piece of  *)
(* text (a non-numeric table cell), or a raised exception.  Rounding,      *)
(* overflow, underflow and the sign of zero are not modelled.              *)
(*                                                                         *)
(* A value read from a pandas row is a numpy scalar when the table is      *)
(* numeric and a plain Python number when the row has dtype object; the    *)
(* flag np records which, because a numpy division by zero yields inf or   *)
(* nan where a Python division raises ZeroDivisionError.                   *)
(***************************************************************************)
EXTENDS Integers, Sequences, FiniteSets, TLC

VARIABLES
    args,       \* the nine arguments of a direct call of the turning computation
    res,        \* what calculate_cost_for_row(args) returned or raised
    resNew,     \* what the inline computation of new.py did on the same args
    app,        \* the script a Streamlit session runs: "calcy" or "new"
    w,          \* the values of the session's widgets
    file,       \* calcy.py: the file in the uploader
    shown,      \* what the last Calculate click computed and displayed
    tin,        \* thread_calculator.py: the inputs of a run
    tout        \* thread_calculator.py: what the run computed

turnVars == <<args, res, resNew>>
uiVars == <<app, w, file, shown>>
threadVars == <<tin, tout>>
vars == <<args, res, resNew, app, w, file, shown, tin, tout>>

-----------------------------------------------------------------------------
(* Rational numbers <<n, d>>, d > 0, in lowest terms.                      *)

Abs(n) == IF n < 0 THEN -n ELSE n

RECURSIVE GCD(_, _)
GCD(a, b) == IF b = 0 THEN a ELSE GCD(b, a % b)

Reduce(n, d, g) == IF d < 0 THEN <<(-n) \div g, (-d) \div g>> ELSE <<n \div g, d \div g>>
Norm(n, d) == Reduce(n, d, GCD(Abs(n), Abs(d)))

R(n) == <<n, 1>>
RZero == <<0, 1>>
RAdd(x, y) == Norm(x[1] * y[2] + y[1] * x[2], x[2] * y[2])
RMul(x, y) == Norm(x[1] * y[1], x[2] * y[2])
RDiv(x, y) == Norm(x[1] * y[2], x[2] * y[1])
RSign(x) == IF x[1] > 0 THEN 1 ELSE IF x[1] < 0 THEN -1 ELSE 0

-----------------------------------------------------------------------------
(* Finite numbers <<m, z, p>> = m/pi + z + p*pi.                           *)

PZero == <<RZero, RZero, RZero>>
PRat(q) == <<RZero, q, RZero>>
PPi == <<RZero, RZero, R(1)>>

PIsZero(x) == x = PZero
PAdd(x, y) == <<RAdd(x[1], y[1]), RAdd(x[2], y[2]), RAdd(x[3], y[3])>>

\* The exponent of the single term of a one-term number c*pi^j.
PExp(y) == IF y[1] # RZero THEN -1 ELSE IF y[2] # RZero THEN 0 ELSE 1

\* Coefficient of pi^k in x, k in -1..1 (zero outside).
PCoef(x, k) == IF k \in -1..1 THEN x[k + 2] ELSE RZero

\* Product x * (c*pi^j) and quotient x / (c*pi^j).  One factor of every
\* product the programs form, and every divisor (1000.0, 60.0, pi*D, f*N),
\* has one term; no product or quotient has a pi^2 or pi^-2 term.
PScale(x, c, j) == <<RMul(PCoef(x, -1 - j), c), RMul(PCoef(x, 0 - j), c), RMul(PCoef(x, 1 - j), c)>>
PShrink(x, c, j) == <<RDiv(PCoef(x, j - 1), c), RDiv(PCoef(x, j), c), RDiv(PCoef(x, j + 1), c)>>
OneTerm(y) == Cardinality({k \in 1..3 : y[k] # RZero}) <= 1
PMul(x, y) ==
    IF OneTerm(y) THEN PScale(x, PCoef(y, PExp(y)), PExp(y))
    ELSE PScale(y, PCoef(x, PExp(x)), PExp(x))
PDiv(x, y) == PShrink(x, PCoef(y, PExp(y)), PExp(y))

\* Sign from the bounds 3 < pi < 22/7; 2 when these bounds do not decide.
Below(c, lo, hi) == RMul(c, IF RSign(c) >= 0 THEN lo ELSE hi)
PLow(x) == RAdd(RAdd(Below(x[1], <<7, 22>>, <<1, 3>>), x[2]), Below(x[3], R(3), <<22, 7>>))
PHigh(x) == RAdd(RAdd(Below(x[1], <<1, 3>>, <<7, 22>>), x[2]), Below(x[3], <<22, 7>>, R(3)))
PSign(x) ==
    IF PIsZero(x) THEN 0
    ELSE IF x[1] = RZero /\ x[3] = RZero THEN RSign(x[2])
    ELSE IF x[1] = RZero /\ x[2] = RZero THEN RSign(x[3])
    ELSE IF x[2] = RZero /\ x[3] = RZero THEN RSign(x[1])
    ELSE IF RSign(PLow(x)) >= 0 THEN 1
    ELSE IF RSign(PHigh(x)) <= 0 THEN -1
    ELSE 2

-----------------------------------------------------------------------------
(* Python values.  t is "fin", "inf", "-inf", "nan", "str" or the name of  *)
(* a raised exception; v is the number when t = "fin"; np marks a numpy    *)
(* scalar.                                                                 *)

Val(t, v, np) == [t |-> t, v |-> v, np |-> np]
Fin(q) == Val("fin", PRat(q), FALSE)
Num(n) == Fin(R(n))
Frac(n, d) == Fin(Norm(n, d))
PosInf == Val("inf", PZero, FALSE)          \* float("inf")
NaN == Val("nan", PZero, FALSE)
Text == Val("str", PZero, FALSE)
Pi == Val("fin", PPi, FALSE)                \* math.pi
Raise(e) == Val(e, PZero, FALSE)
AsNp(x) == IF x.t = "str" THEN x ELSE [x EXCEPT !.np = TRUE]

Exceptions == {"ZeroDivisionError", "TypeError", "KeyError"}
IsErr(x) == x.t \in Exceptions
IsNum(x) == x.t \in {"fin", "inf", "-inf", "nan"}
IsFinite(x) == x.t = "fin"
IsZero(x) == x.t = "fin" /\ PIsZero(x.v)

\* -1, 0, 1 for a number that is not nan.
Sign(x) == IF x.t = "inf" THEN 1 ELSE IF x.t = "-inf" THEN -1 ELSE PSign(x.v)
Signed(s, np) == Val(IF s > 0 THEN "inf" ELSE "-inf", PZero, np)

\* x > 0, x < 0, x <= 0, x >= 0 as Python compares floats: False for nan.
Ordered(x) == x.t \in {"fin", "inf", "-inf"}
Gt0(x) == Ordered(x) /\ Sign(x) = 1
Lt0(x) == Ordered(x) /\ Sign(x) = -1
Leq0(x) == Ordered(x) /\ Sign(x) \in {-1, 0}
Geq0(x) == Ordered(x) /\ Sign(x) \in {0, 1}

\* An operand that is an exception already raised propagates; text in float
\* arithmetic raises TypeError.
Guarded(x, y, r) ==
    IF IsErr(x) THEN x
    ELSE IF IsErr(y) THEN y
    ELSE IF x.t = "str" \/ y.t = "str" THEN Raise("TypeError")
    ELSE r

Add(x, y) ==
    Guarded(x, y,
      IF x.t = "nan" \/ y.t = "nan" THEN Val("nan", PZero, x.np \/ y.np)
      ELSE IF x.t = "fin" /\ y.t = "fin" THEN Val("fin", PAdd(x.v, y.v), x.np \/ y.np)
      ELSE IF x.t = "fin" THEN Val(y.t, PZero, x.np \/ y.np)
      ELSE IF y.t = "fin" THEN Val(x.t, PZero, x.np \/ y.np)
      ELSE IF x.t = y.t THEN Val(x.t, PZero, x.np \/ y.np)
      ELSE Val("nan", PZero, x.np \/ y.np))

Mul(x, y) ==
    Guarded(x, y,
      IF x.t = "nan" \/ y.t = "nan" THEN Val("nan", PZero, x.np \/ y.np)
      ELSE IF x.t = "fin" /\ y.t = "fin" THEN Val("fin", PMul(x.v, y.v), x.np \/ y.np)
      ELSE IF IsZero(x) \/ IsZero(y) THEN Val("nan", PZero, x.np \/ y.np)
      ELSE Signed(Sign(x) * Sign(y), x.np \/ y.np))

\* True division.  A zero divisor raises ZeroDivisionError between Python
\* numbers; with a numpy operand it yields nan (0/0, nan/0) or a signed inf.
Div(x, y) ==
    Guarded(x, y,
      IF IsZero(y) THEN
          IF ~(x.np \/ y.np) THEN Raise("ZeroDivisionError")
          ELSE IF x.t = "nan" \/ IsZero(x) THEN Val("nan", PZero, TRUE)
          ELSE Signed(Sign(x), TRUE)
      ELSE IF x.t = "nan" \/ y.t = "nan" THEN Val("nan", PZero, x.np \/ y.np)
      ELSE IF x.t = "fin" /\ y.t = "fin" THEN Val("fin", PDiv(x.v, y.v), x.np \/ y.np)
      ELSE IF x.t = "fin" THEN Val("fin", PZero, x.np \/ y.np)
      ELSE IF y.t = "fin" THEN Signed(Sign(x) * Sign(y), x.np \/ y.np)
      ELSE Val("nan", PZero, x.np \/ y.np))

\* Two values are the same number (the numpy flag aside).
SameVal(x, y) == x.t = y.t /\ x.v = y.v

-----------------------------------------------------------------------------
(* calcy.py: the cost of one part.  Each statement's value is bound once,  *)
(* innermost first: {e(v) : v \in {d}} is e with v = d.                    *)

Nil == Val("none", PZero, FALSE)

\* The five values calculate_cost_for_row returns, or the exception it raises.
Returned(mc, hc, tc, mt, tt) ==
    [err |-> "none", material_cost |-> mc, machining_cost |-> hc,
     total_cost |-> tc, machining_time |-> mt, total_time_min |-> tt]
Raised(e) ==
    [err |-> e, material_cost |-> Nil, machining_cost |-> Nil,
     total_cost |-> Nil, machining_time |-> Nil, total_time_min |-> Nil]

\* Material cost of the raw rod (calcy.py lines 13-18, new.py lines 82-85):
\* volume_mm3 = pi * (D_raw / 2) ** 2 * L_raw, volume_cm3 = volume_mm3 / 1000,
\* weight_kg = volume_cm3 * density / 1000, material_cost = weight_kg * cost.
MaterialCost(L_raw, D_raw, density, cost_per_kg) ==
    CHOOSE material_cost \in
        {Mul(weight_kg, cost_per_kg) : weight_kg \in
        {Div(weight_g, Num(1000)) : weight_g \in
        {Mul(volume_cm3, density) : volume_cm3 \in
        {Div(volume_mm3, Num(1000)) : volume_mm3 \in
        {Mul(area, L_raw) : area \in
        {Mul(Pi, square) : square \in
        {Mul(half, half) : half \in
        {Div(D_raw, Num(2))}}}}}}}} : TRUE

\* Spindle speed N = (1000 * Vc) / (pi * D).
SpindleSpeed(cutting_speed, D_final) ==
    CHOOSE spindle_speed \in
        {Div(surface, circumference) :
            surface \in {Mul(Num(1000), cutting_speed)},
            circumference \in {Mul(Pi, D_final)}} : TRUE

\* L / (f * N).
TimeOf(L_raw, feed_rate, spindle_speed) ==
    CHOOSE t \in {Div(L_raw, advance) : advance \in {Mul(feed_rate, spindle_speed)}} : TRUE

\* Machining time of calcy.py: guarded on the spindle speed and the feed.
MachiningTimeInclusive(L_raw, feed_rate, spindle_speed) ==
    IF Geq0(spindle_speed) /\ Geq0(feed_rate)
    THEN TimeOf(L_raw, feed_rate, spindle_speed)
    ELSE PosInf
MachiningTimeSpindleOnly(L_raw, feed_rate, spindle_speed) ==
    IF Gt0(spindle_speed)
    THEN TimeOf(L_raw, feed_rate, spindle_speed)
    ELSE PosInf
MachiningTime(L_raw, feed_rate, spindle_speed) ==
    IF Gt0(spindle_speed) /\ Gt0(feed_rate)
    THEN TimeOf(L_raw, feed_rate, spindle_speed)
    ELSE PosInf

\* The result: the first exception raised in statement order, else the tuple.
Outcome(material_cost, spindle_speed, machining_time, total_time_min, machining_cost, total_cost) ==
    IF IsErr(material_cost) THEN Raised(material_cost.t)
    ELSE IF IsErr(spindle_speed) THEN Raised(spindle_speed.t)
    ELSE IF IsErr(total_cost) THEN Raised(total_cost.t)
    ELSE Returned(material_cost, machining_cost, total_cost, machining_time, total_time_min)

\* Machining cost from the total time: (total_time_min / 60) * MHR.
MachiningCost(total_time_min, MHR) ==
    CHOOSE machining_cost \in
        {Mul(total_time_hr, MHR) : total_time_hr \in {Div(total_time_min, Num(60))}} : TRUE

\* The statements after the material cost and the spindle speed, shared by
\* both files: total time, machining cost, total cost, and the result.
TotalTime(machining_time, extra_time) == Add(machining_time, extra_time)
FinishWithoutExtra(material_cost, spindle_speed, machining_time, MHR, extra_time) ==
    CHOOSE out \in UNION
        {{Outcome(material_cost, spindle_speed, machining_time, machining_time,
                  machining_cost, total_cost) :
            total_cost \in {Add(material_cost, machining_cost)}} :
            machining_cost \in {MachiningCost(machining_time, MHR)}} : TRUE
Finish(material_cost, spindle_speed, machining_time, MHR, extra_time) ==
    CHOOSE out \in UNION UNION
        {{{Outcome(material_cost, spindle_speed, machining_time, total_time_min,
                   machining_cost, total_cost) :
            total_cost \in {Add(material_cost, machining_cost)}} :
            machining_cost \in {MachiningCost(total_time_min, MHR)}} :
            total_time_min \in {TotalTime(machining_time, extra_time)}} : TRUE

calculate_cost_for_row(L_raw, D_raw, D_final, density, cost_per_kg, feed_rate, cutting_speed, MHR, extra_time) ==
    CHOOSE out \in UNION UNION
        {{{Finish(material_cost, spindle_speed, machining_time, MHR, extra_time) :
            machining_time \in {MachiningTime(L_raw, feed_rate, spindle_speed)}} :
            spindle_speed \in {SpindleSpeed(cutting_speed, D_final)}} :
            material_cost \in {MaterialCost(L_raw, D_raw, density, cost_per_kg)}} : TRUE

\* new.py: the same computation written inline in the Calculate handler;
\* its machining time is guarded on the spindle speed only.
MachiningTimeNewGuarded(L_raw, feed_rate, spindle_speed) ==
    IF Gt0(spindle_speed) /\ Gt0(feed_rate)
    THEN TimeOf(L_raw, feed_rate, spindle_speed)
    ELSE PosInf
MachiningTimeNew(L_raw, feed_rate, spindle_speed) ==
    IF Gt0(spindle_speed)
    THEN TimeOf(L_raw, feed_rate, spindle_speed)
    ELSE PosInf

new_calculate(L_raw, D_raw, D_final, density, cost_per_kg, feed_rate, cutting_speed, MHR, extra_time) ==
    CHOOSE out \in UNION UNION
        {{{Finish(material_cost, spindle_speed, machining_time, MHR, extra_time) :
            machining_time \in {MachiningTimeNew(L_raw, feed_rate, spindle_speed)}} :
            spindle_speed \in {SpindleSpeed(cutting_speed, D_final)}} :
            material_cost \in {MaterialCost(L_raw, D_raw, density, cost_per_kg)}} : TRUE

\* The calls on a record of the nine arguments.
Calc(a) ==
    calculate_cost_for_row(a.L_raw, a.D_raw, a.D_final, a.density, a.cost_per_kg,
                           a.feed_rate, a.cutting_speed, a.MHR, a.extra_time)
CalcNew(a) ==
    new_calculate(a.L_raw, a.D_raw, a.D_final, a.density, a.cost_per_kg,
                  a.feed_rate, a.cutting_speed, a.MHR, a.extra_time)

\* The values the widgets of calcy.py and new.py start with.
Defaults ==
    [L_raw |-> Num(250), D_raw |-> Num(38), D_final |-> Num(36),
     density |-> Frac(785, 100), cost_per_kg |-> Num(55), feed_rate |-> Frac(1, 5),
     cutting_speed |-> Num(20), MHR |-> Num(800), extra_time |-> Num(5)]

-----------------------------------------------------------------------------
(* The widgets of calcy.py and new.py.  Each set holds values inside the   *)
(* range of its st.number_input.                                           *)

Processes == {"Chamfer", "Chamfer Drill Slot", "Chamfer Groove Slot", "Chamfer Groove Drill"}

W_density == {Frac(785, 100)}               \* 1.0 .. 20.0
W_cost_per_kg == {Num(55)}                  \* 1 .. 200
W_feed_rate == {Frac(1, 5), Num(1)}         \* 0.05 .. 1.0
W_cutting_speed == {Num(20)}                \* 5 .. 100
W_MHR == {Num(800), Num(2000)}              \* 100 .. 2000
W_L_raw == {Num(250)}                       \* 50 .. 1000
W_D_raw == {Num(10), Num(38)}               \* 10 .. 200
W_D_final == {Num(5), Num(36)}              \* 5 .. 200
W_D_raw_bulk == {Num(10), Num(38)}          \* 10 .. 200

\* The default of the time widget of each process.
DefaultTime(process) ==
    CASE process = "Chamfer" -> Num(5)
      [] process = "Chamfer Drill Slot" -> Num(10)
      [] process = "Chamfer Groove Slot" -> Num(8)
      [] process = "Chamfer Groove Drill" -> Num(12)
W_extra_time(process) == {Num(0), DefaultTime(process)}     \* 0 .. 30 or 0 .. 60

DefaultWidgets ==
    [process |-> "Chamfer",
     density |-> Defaults.density, cost_per_kg |-> Defaults.cost_per_kg,
     feed_rate |-> Defaults.feed_rate, cutting_speed |-> Defaults.cutting_speed,
     MHR |-> Defaults.MHR, L_raw |-> Defaults.L_raw, D_raw |-> Defaults.D_raw,
     D_final |-> Defaults.D_final, extra_time |-> Defaults.extra_time,
     D_raw_bulk |-> Num(38)]

\* The values a number widget offers.
WidgetVals(f, process) ==
    CASE f = "density" -> W_density
      [] f = "cost_per_kg" -> W_cost_per_kg
      [] f = "feed_rate" -> W_feed_rate
      [] f = "cutting_speed" -> W_cutting_speed
      [] f = "MHR" -> W_MHR
      [] f = "L_raw" -> W_L_raw
      [] f = "D_raw" -> W_D_raw
      [] f = "D_final" -> W_D_final
      [] f = "extra_time" -> W_extra_time(process)
      [] f = "D_raw_bulk" -> W_D_raw_bulk

NumberWidgets ==
    {"density", "cost_per_kg", "feed_rate", "cutting_speed", "MHR",
     "L_raw", "D_raw", "D_final", "extra_time", "D_raw_bulk"}

-----------------------------------------------------------------------------
(* The uploaded file.  A table that was read has rows of three cells; a    *)
(* missing cell is read as nan, a non-numeric cell is text.  With a text   *)
(* cell (or any other text column) the rows have dtype object and their    *)
(* cells are Python numbers; otherwise they are numpy scalars.             *)

MaxRows == 2

Row(l, d, c) == [length |-> l, dia |-> d, chamfer |-> c]
RowVals ==
    {Row(Num(250), Num(36), Num(5)),        \* two parts that can be cut
     Row(Num(50), Num(5), Num(0)),
     Row(Text, Num(36), Num(5)),            \* non-numeric length
     Row(NaN, Num(36), Num(5)),             \* missing length
     Row(Num(250), Num(0), Num(5))}         \* dia 0

RECURSIVE SeqsOf(_, _)
SeqsOf(S, n) ==
    IF n = 0 THEN {<<>>}
    ELSE LET shorter == SeqsOf(S, n - 1)
         IN  shorter \cup {Append(q, x) : q \in {r \in shorter : Len(r) = n - 1}, x \in S}

AllColumns == {"length", "dia", "chamfer"}
HasText(rows) ==
    \E i \in 1..Len(rows) : Text \in {rows[i].length, rows[i].dia, rows[i].chamfer}

NoFile == [kind |-> "none", columns |-> {}, rows |-> <<>>, object |-> FALSE]
Unreadable == [kind |-> "unreadable", columns |-> {}, rows |-> <<>>, object |-> FALSE]
Table(columns, rows, object) ==
    [kind |-> "table", columns |-> columns, rows |-> rows, object |-> object]

\* The tables the model uploads: one to MaxRows rows with all three columns,
\* and one table that lacks the chamfer column.
Tables ==
    {Table(AllColumns, rows, object) :
        rows \in SeqsOf(RowVals, MaxRows) \ {<<>>}, object \in BOOLEAN}
Files ==
    {t \in Tables : HasText(t.rows) => t.object}
    \cup {Table({"length", "dia"}, <<Row(Num(250), Num(36), NaN)>>, FALSE)}
    \cup {Unreadable}

\* row['length'] and the like: the cell as the row-wise apply hands it over.
Cell(table, v) == IF table.object THEN v ELSE AsNp(v)

Nothing == [path |-> "none", status |-> "none", rows |-> <<>>, ncalls |-> 0]

IdleUI ==
    /\ app = "none"
    /\ w = DefaultWidgets
    /\ file = NoFile
    /\ shown = Nothing

NoThread == [err |-> "not run"]
IdleThread ==
    /\ tin = NoThread
    /\ tout = NoThread

-----------------------------------------------------------------------------
(* The turning computation as a function: both variants applied to         *)
(* arguments of every sign, to nan, and to numpy scalars read from a row.  *)

NoCall == Raised("not called")

L_rawVals == {Num(0), Num(250), NaN}
D_rawVals == {Num(0), Num(38)}
D_finalVals == {Num(-36), Num(0), Num(36), NaN}
densityVals == {Num(-1), Frac(785, 100)}
cost_per_kgVals == {Num(55)}
feed_rateVals == {Frac(-1, 5), Num(0), Frac(1, 5)}
cutting_speedVals == {Num(-20), Num(0), Num(20)}
MHRVals == {Num(-800), Num(0), Num(800)}
extra_timeVals == {Num(0), Num(5)}

ArgRecords ==
    [L_raw : L_rawVals, D_raw : D_rawVals, D_final : D_finalVals,
     density : densityVals, cost_per_kg : cost_per_kgVals,
     feed_rate : feed_rateVals, cutting_speed : cutting_speedVals,
     MHR : MHRVals, extra_time : extra_timeVals]

\* The arguments as the bulk path passes them: length, dia and chamfer are
\* read from the row (numpy scalars in a numeric table), the rest are widgets.
FromRow(a) ==
    [a EXCEPT !.L_raw = AsNp(@), !.D_final = AsNp(@), !.extra_time = AsNp(@)]

ArgSpace == ArgRecords \cup {FromRow(a) : a \in ArgRecords}

\* st.number_input returns a finite Python int or float.
IsWidgetNumber(x) == x.t = "fin" /\ ~x.np
WidgetArgs(a) ==
    /\ IsWidgetNumber(a.L_raw) /\ IsWidgetNumber(a.D_raw) /\ IsWidgetNumber(a.D_final)
    /\ IsWidgetNumber(a.density) /\ IsWidgetNumber(a.cost_per_kg)
    /\ IsWidgetNumber(a.feed_rate) /\ IsWidgetNumber(a.cutting_speed)
    /\ IsWidgetNumber(a.MHR) /\ IsWidgetNumber(a.extra_time)

InitTurn ==
    /\ args \in ArgSpace
    /\ res = NoCall
    /\ resNew = NoCall
    /\ IdleUI
    /\ IdleThread

\* calcy.py: a call of calculate_cost_for_row.
CallCalcy ==
    /\ res = NoCall
    /\ res' = Calc(args)
    /\ UNCHANGED <<args, resNew, uiVars, threadVars>>

\* new.py: the Calculate handler's computation on widget values.
CallNew ==
    /\ resNew = NoCall
    /\ WidgetArgs(args)
    /\ resNew' = CalcNew(args)
    /\ UNCHANGED <<args, res, uiVars, threadVars>>

NextTurn == CallCalcy \/ CallNew

SpecTurn == InitTurn /\ [][NextTurn]_vars

Called == res # NoCall
Spindle == SpindleSpeed(args.cutting_speed, args.D_final)

Neg(x) == Mul(Num(-1), x)
\* x < y for numbers, False when either is nan.
Less(x, y) ==
    /\ IsNum(x) /\ IsNum(y)
    /\ \E minus \in {Neg(y)} : \E difference \in {Add(x, minus)} : Lt0(difference)
IsPosInf(x) == x.t = "inf"

\* The guarded formula of machining time, as the claims state it.
TimeFormula == Div(args.L_raw, Mul(args.feed_rate, Spindle))

\* C3 as stated: for every input with finalDiameter # 0, machining time is
\* +infinity without an error when spindleSpeed <= 0 or feedRate <= 0, and
\* rawLength / (feedRate * spindleSpeed) otherwise.
C3_AsStated ==
    (Called /\ ~IsZero(args.D_final)) =>
        /\ res.err = "none"
        /\ IF Leq0(Spindle) \/ Leq0(args.feed_rate)
           THEN IsPosInf(res.machining_time)
           ELSE SameVal(res.machining_time, TimeFormula)

\* C3 amended: for every input with finalDiameter # 0, machining time is
\* +infinity without an error unless spindleSpeed > 0 and feedRate > 0 (so
\* also when either is nan), and rawLength / (feedRate * spindleSpeed) when
\* both are positive.
C3_GuardedTime ==
    (Called /\ ~IsZero(args.D_final)) =>
        /\ res.err = "none"
        /\ IF Gt0(Spindle) /\ Gt0(args.feed_rate)
           THEN SameVal(res.machining_time, TimeFormula)
           ELSE IsPosInf(res.machining_time)

\* A call whose spindle speed is nan (a missing dia) took the sentinel.
C3_Witness ==
    /\ Called /\ ~IsZero(args.D_final)
    /\ args.D_final.t = "nan" /\ Spindle.t = "nan" /\ Gt0(args.feed_rate)
    /\ IsPosInf(res.machining_time)

\* C4 as stated: with finalDiameter > 0 and feedRate = 0 or cuttingSpeed = 0,
\* machining time and total cost are +infinity whatever the other inputs
\* are; the total cost is never nan and nothing is raised.
C4_Precondition ==
    /\ Gt0(args.D_final)
    /\ IsZero(args.feed_rate) \/ IsZero(args.cutting_speed)

C4_AsStated ==
    (Called /\ C4_Precondition) =>
        /\ res.err = "none"
        /\ IsPosInf(res.machining_time)
        /\ IsPosInf(res.total_cost)

\* C4 amended: with finalDiameter > 0 and feedRate = 0 or cuttingSpeed = 0,
\* nothing is raised and machining time is +infinity whatever the other
\* inputs are; the total cost is +infinity when the machine-hour rate is > 0
\* and length, raw diameter, density, cost per kg and extra time are finite;
\* it is nan when the machine-hour rate is 0 and -infinity when it is < 0.
OthersFinite ==
    /\ IsFinite(args.L_raw) /\ IsFinite(args.D_raw) /\ IsFinite(args.density)
    /\ IsFinite(args.cost_per_kg) /\ IsFinite(args.extra_time)

C4_InfinityPropagation ==
    (Called /\ C4_Precondition) =>
        /\ res.err = "none"
        /\ IsPosInf(res.machining_time)
        /\ (OthersFinite /\ Gt0(args.MHR)) => IsPosInf(res.total_cost)
        /\ IsZero(args.MHR) => res.total_cost.t = "nan"
        /\ (OthersFinite /\ Lt0(args.MHR)) => res.total_cost.t = "-inf"

C4_Witness ==
    /\ Called /\ C4_Precondition /\ OthersFinite
    /\ IsZero(args.feed_rate) /\ Gt0(args.cutting_speed) /\ Gt0(args.MHR)
    /\ IsPosInf(res.total_cost)

\* C5: for every input with finalDiameter = 0 the turning computation fails
\* with a division-by-zero error and returns none of its five outputs.
C5_ZeroDiameterRaises ==
    (Called /\ IsZero(args.D_final)) => res = Raised("ZeroDivisionError")

\* C8: for every valid input (finalDiameter < rawDiameter, all fields > 0,
\* extra time >= 0) material cost and machining cost are >= 0, total cost is
\* their sum, and machining cost is ((machiningTime + extraTime) / 60) *
\* machineHourRate.
ValidInput(a) ==
    /\ Less(a.D_final, a.D_raw)
    /\ Gt0(a.L_raw) /\ Gt0(a.D_raw) /\ Gt0(a.D_final) /\ Gt0(a.density)
    /\ Gt0(a.cost_per_kg) /\ Gt0(a.feed_rate) /\ Gt0(a.cutting_speed) /\ Gt0(a.MHR)
    /\ Geq0(a.extra_time)

C8_CostComposition ==
    (Called /\ ValidInput(args)) =>
        /\ res.err = "none"
        /\ Geq0(res.material_cost)
        /\ Geq0(res.machining_cost)
        /\ SameVal(res.total_cost, Add(res.material_cost, res.machining_cost))
        /\ SameVal(res.machining_cost,
                   Mul(Div(Add(TimeFormula, args.extra_time), Num(60)), args.MHR))

C8_Witness ==
    /\ Called /\ ValidInput(args)
    /\ Gt0(args.extra_time)
    /\ Gt0(res.material_cost) /\ Gt0(res.machining_cost)

\* C10: on identical inputs the two variants have the same outcome (the same
\* three costs, or the same error) exactly when feedRate > 0 or
\* spindleSpeed <= 0 or finalDiameter = 0.
SameOutcome(r1, r2) ==
    /\ r1.err = r2.err
    /\ SameVal(r1.material_cost, r2.material_cost)
    /\ SameVal(r1.machining_cost, r2.machining_cost)
    /\ SameVal(r1.total_cost, r2.total_cost)

C10_VariantsAgree ==
    (Called /\ resNew # NoCall) =>
        (SameOutcome(res, resNew) <=>
            (Gt0(args.feed_rate) \/ IsZero(args.D_final) \/ Leq0(Spindle)))

\* Both variants ran on a non-positive feed with a positive spindle speed:
\* calcy.py returned the sentinel, new.py divided.
C10_Witness ==
    /\ Called /\ resNew # NoCall
    /\ Lt0(args.feed_rate) /\ Gt0(Spindle)
    /\ IsPosInf(res.machining_time) /\ Lt0(resNew.machining_time)

-----------------------------------------------------------------------------
(* A Streamlit session of calcy.py or new.py.  Every interaction reruns    *)
(* the script on the current widget values; only a click on Calculate      *)
(* makes the run compute and display anything.                             *)

\* calcy.py: df_bulk is not None.  The first reading keeps the table of a
\* failed read (the except branch without df_bulk = None).
BulkUploaded == app = "calcy" /\ w.process = "Chamfer" /\ file.kind # "none"
BulkLoaded == app = "calcy" /\ w.process = "Chamfer" /\ file.kind = "table"

\* x >= y as Python compares.
Geq(x, y) ==
    /\ Ordered(x) /\ Ordered(y)
    /\ \E minus \in {Neg(y)} : \E difference \in {Add(x, minus)} : Geq0(difference)

\* The arguments the bulk path passes for one row, and those the single-part
\* path and new.py pass.
RowArgsManual(table, row, ww) ==
    [L_raw |-> Cell(table, row.length), D_raw |-> ww.D_raw,
     D_final |-> Cell(table, row.dia), density |-> ww.density,
     cost_per_kg |-> ww.cost_per_kg, feed_rate |-> ww.feed_rate,
     cutting_speed |-> ww.cutting_speed, MHR |-> ww.MHR,
     extra_time |-> Cell(table, row.chamfer)]
RowArgs(table, row, ww) ==
    [L_raw |-> Cell(table, row.length), D_raw |-> ww.D_raw_bulk,
     D_final |-> Cell(table, row.dia), density |-> ww.density,
     cost_per_kg |-> ww.cost_per_kg, feed_rate |-> ww.feed_rate,
     cutting_speed |-> ww.cutting_speed, MHR |-> ww.MHR,
     extra_time |-> Cell(table, row.chamfer)]

ManualArgs(ww) ==
    [L_raw |-> ww.L_raw, D_raw |-> ww.D_raw, D_final |-> ww.D_final,
     density |-> ww.density, cost_per_kg |-> ww.cost_per_kg,
     feed_rate |-> ww.feed_rate, cutting_speed |-> ww.cutting_speed,
     MHR |-> ww.MHR, extra_time |-> ww.extra_time]

Display(path, status, rows, ncalls) ==
    [path |-> path, status |-> status, rows |-> rows, ncalls |-> ncalls]

Min(S) == CHOOSE x \in S : \A y \in S : x <= y

\* calcy.py, bulk path: the row-wise apply inside try/except.  A row that
\* raises ends the apply; nothing of the batch is displayed then.
CalcRow(table, i, ww) ==
    CHOOSE out \in {Calc(a) : a \in {RowArgs(table, table.rows[i], ww)}} : TRUE
Failing(outs) == {i \in DOMAIN outs : outs[i].err # "none"}
BulkDisplay(outs) ==
    IF Failing(outs) # {}
    THEN Display("bulk", "error", <<>>, Min(Failing(outs)))
    ELSE Display("bulk", "results", outs, Len(outs))
BulkCalculation(table, ww) ==
    IF ~(AllColumns \subseteq table.columns)
    THEN Display("bulk", "missing column", <<>>, 0)
    ELSE CHOOSE d \in
        {BulkDisplay(outs) : outs \in
        {[i \in 1..Len(table.rows) |-> CalcRow(table, i, ww)]}} : TRUE

\* calcy.py, single-part path: two checks, then the computation.
SingleDisplay(out) ==
    IF out.err # "none"
    THEN Display("single", "exception", <<>>, 1)
    ELSE Display("single", "results", <<out>>, 1)
SingleCalculation(ww) ==
    IF Geq(ww.D_final, ww.D_raw)
    THEN Display("single", "diameter error", <<>>, 0)
    ELSE IF Leq0(ww.D_raw) \/ Leq0(ww.D_final) \/ Leq0(ww.L_raw)
    THEN Display("single", "positive error", <<>>, 0)
    ELSE CHOOSE d \in
        {SingleDisplay(out) : out \in
        {Calc(a) : a \in {ManualArgs(ww)}}} : TRUE

\* new.py: the Calculate handler computes at once.
NewDisplay(out) ==
    IF out.err # "none"
    THEN Display("new", "exception", <<>>, 1)
    ELSE Display("new", "results", <<out>>, 1)
NewCalculation(ww) ==
    CHOOSE d \in
        {NewDisplay(out) : out \in
        {CalcNew(a) : a \in {ManualArgs(ww)}}} : TRUE

InitUI ==
    /\ app \in {"calcy", "new"}
    /\ w = DefaultWidgets
    /\ file = NoFile
    /\ shown = Nothing
    /\ args = Defaults /\ res = NoCall /\ resNew = NoCall
    /\ IdleThread

\* A widget is on the page: the bulk diameter only with a loaded table, the
\* manual time widget only without one.
Rendered(f) ==
    CASE f = "D_raw_bulk" -> BulkLoaded
      [] f = "extra_time" -> ~BulkLoaded
      [] OTHER -> TRUE

SetWidget ==
    /\ \E f \in NumberWidgets :
         /\ Rendered(f)
         /\ \E v \in WidgetVals(f, w.process) \ {w[f]} : w' = [w EXCEPT ![f] = v]
    /\ shown' = Nothing
    /\ UNCHANGED <<app, file, turnVars, threadVars>>

\* Another process: its own time widget appears with its default, the
\* uploader and the bulk diameter leave the page.
SelectProcess ==
    /\ \E p \in Processes \ {w.process} :
         w' = [w EXCEPT !.process = p, !.extra_time = DefaultTime(p),
                        !.D_raw_bulk = DefaultWidgets.D_raw_bulk]
    /\ file' = NoFile
    /\ shown' = Nothing
    /\ UNCHANGED <<app, turnVars, threadVars>>

Upload ==
    /\ app = "calcy" /\ w.process = "Chamfer"
    /\ file' \in Files \ {file}
    /\ w' = [w EXCEPT !.extra_time = DefaultTime("Chamfer"),
                      !.D_raw_bulk = DefaultWidgets.D_raw_bulk]
    /\ shown' = Nothing
    /\ UNCHANGED <<app, turnVars, threadVars>>

RemoveFile ==
    /\ file # NoFile
    /\ file' = NoFile
    /\ w' = [w EXCEPT !.extra_time = DefaultTime("Chamfer"),
                      !.D_raw_bulk = DefaultWidgets.D_raw_bulk]
    /\ shown' = Nothing
    /\ UNCHANGED <<app, turnVars, threadVars>>

ClickCalculateCalcy ==
    /\ app = "calcy"
    /\ shown' = IF BulkLoaded THEN BulkCalculation(file, w) ELSE SingleCalculation(w)
    /\ shown' # shown
    /\ UNCHANGED <<app, w, file, turnVars, threadVars>>

ClickCalculateNew ==
    /\ app = "new"
    /\ shown' = NewCalculation(w)
    /\ shown' # shown
    /\ UNCHANGED <<app, w, file, turnVars, threadVars>>

NextUI ==
    \/ SetWidget
    \/ SelectProcess
    \/ Upload
    \/ RemoveFile
    \/ ClickCalculateCalcy
    \/ ClickCalculateNew

SpecUI == InitUI /\ [][NextUI]_vars

\* The i-th input the last click passed to the turning computation.
Invocation(i) ==
    IF shown.path = "bulk" THEN RowArgs(file, file.rows[i], w) ELSE ManualArgs(w)

\* C2: on every path that reaches the turning computation, an input with
\* finalDiameter >= rawDiameter or with length, diameter, density or cost
\* <= 0 is rejected before the computation is invoked.
Rejectable(a) ==
    \/ Geq(a.D_final, a.D_raw)
    \/ Leq0(a.L_raw) \/ Leq0(a.D_raw) \/ Leq0(a.D_final)
    \/ Leq0(a.density) \/ Leq0(a.cost_per_kg)

C2_ValidationPrecedes ==
    \A i \in 1..shown.ncalls : ~Rejectable(Invocation(i))

\* C1: a batch with malformed rows (a missing or non-numeric length, dia or
\* chamfer) is not aborted: every well-formed row yields its five outputs at
\* its own index and every malformed row is reported as a failure at its
\* index.
NumericCell(v) == v.t \in {"fin", "inf", "-inf"}
MalformedRow(table, row) ==
    \/ ~(AllColumns \subseteq table.columns)
    \/ ~NumericCell(row.length) \/ ~NumericCell(row.dia) \/ ~NumericCell(row.chamfer)

C1_RowIsolation ==
    shown.path = "bulk" =>
        /\ Len(shown.rows) = Len(file.rows)
        /\ \A i \in 1..Len(file.rows) :
             IF MalformedRow(file, file.rows[i])
             THEN shown.rows[i].err # "none"
             ELSE shown.rows[i].err = "none"

\* C7: for a batch of well-formed rows (numeric cells that pass the
\* validation of the single-part path and of the data model) the result has
\* one output per row in the order of the rows, and output i is the turning
\* computation on row i's length, dia and chamfer, the shared bulk raw
\* diameter and the shared default parameters.
ExpectedRow(i) ==
    calculate_cost_for_row(
        Cell(file, file.rows[i].length), w.D_raw_bulk, Cell(file, file.rows[i].dia),
        w.density, w.cost_per_kg, w.feed_rate, w.cutting_speed, w.MHR,
        Cell(file, file.rows[i].chamfer))

WellFormedRow(i) ==
    LET row == file.rows[i]
    IN  /\ NumericCell(row.length) /\ NumericCell(row.dia) /\ NumericCell(row.chamfer)
        /\ Gt0(row.length) /\ Gt0(row.dia) /\ Geq0(row.chamfer)
        /\ Less(row.dia, w.D_raw_bulk)

WellFormedBatch ==
    /\ shown.path = "bulk"
    /\ AllColumns \subseteq file.columns
    /\ \A i \in 1..Len(file.rows) : WellFormedRow(i)

C7_BatchOrder ==
    WellFormedBatch =>
        /\ shown.status = "results"
        /\ Len(shown.rows) = Len(file.rows)
        /\ \A i \in 1..Len(file.rows) :
             shown.rows[i].err = "none" /\ shown.rows[i] = ExpectedRow(i)

\* Two different rows were computed with a bulk diameter that is not the
\* manual one.
C7_Witness ==
    /\ WellFormedBatch
    /\ Len(file.rows) >= 2 /\ file.rows[1] # file.rows[2]
    /\ w.D_raw # w.D_raw_bulk /\ w.D_final # file.rows[1].dia
    /\ shown.status = "results"
    /\ shown.rows[1] # shown.rows[2]

\* C11: on a Calculate click of calcy.py exactly one of the bulk path and
\* the single-part path runs.  The bulk path runs if and only if the Chamfer
\* process is selected and an uploaded file was read without error; the bulk
\* raw diameter is defined then (its widget is on the page) and the batch is
\* computed from the table.  With no file, a failed read or another process
\* the single-part path runs on the manual inputs.
Clicked == app = "calcy" /\ shown # Nothing
ReadWithoutError == w.process = "Chamfer" /\ file.kind = "table"

C11_Dispatch ==
    Clicked =>
        /\ shown.path \in {"bulk", "single"}
        /\ shown.path = "bulk" <=> ReadWithoutError
        /\ shown.path = "bulk" =>
             /\ Rendered("D_raw_bulk") /\ w.D_raw_bulk \in W_D_raw_bulk
             /\ shown = BulkCalculation(file, w)
        /\ shown.path = "single" =>
             /\ Rendered("extra_time") /\ w.extra_time \in W_extra_time(w.process)
             /\ shown = SingleCalculation(w)

\* A file that could not be read was uploaded for Chamfer, and the click
\* computed the single part from the manual inputs.
C11_Witness ==
    /\ Clicked
    /\ w.process = "Chamfer" /\ file = Unreadable
    /\ shown.path = "single" /\ shown.status = "results"

-----------------------------------------------------------------------------
(* thread_calculator.py: one run of the script on its eleven inputs.       *)

ThreadReturned(N, F, T, mat, mach, lab, tool, tot) ==
    [err |-> "none", N |-> N, F |-> F, T |-> T, material_cost |-> mat,
     machine_cost |-> mach, labor_cost |-> lab, tooling_cost |-> tool,
     total_cost |-> tot]
ThreadRaised(e) ==
    [err |-> e, N |-> Nil, F |-> Nil, T |-> Nil, material_cost |-> Nil,
     machine_cost |-> Nil, labor_cost |-> Nil, tooling_cost |-> Nil,
     total_cost |-> Nil]

\* T = L / F, with no guard.
RollingTimeGuarded(L, F) == IF Gt0(F) THEN Div(L, F) ELSE PosInf
RollingTime(L, F) == Div(L, F)

\* N = (1000 * S) / (pi * D).
RollingRPM(S, D) ==
    CHOOSE N \in
        {Div(surface, circumference) :
            surface \in {Mul(Num(1000), S)},
            circumference \in {Mul(Pi, D)}} : TRUE

\* (volume * density * cost_per_kg) / 1000.
ThreadMaterial(volume, density, cost_per_kg) ==
    CHOOSE material_cost \in
        {Div(price, Num(1000)) : price \in
        {Mul(mass, cost_per_kg) : mass \in
        {Mul(volume, density)}}} : TRUE

\* (rate / 60) * T.
RateCost(rate, T) ==
    CHOOSE cost \in {Mul(per_minute, T) : per_minute \in {Div(rate, Num(60))}} : TRUE

\* material_cost + machine_cost + labor_cost + tooling_cost.
ThreadTotal(material_cost, machine_cost, labor_cost, tooling_cost) ==
    CHOOSE total_cost \in
        {Add(three, tooling_cost) : three \in
        {Add(two, labor_cost) : two \in
        {Add(material_cost, machine_cost)}}} : TRUE

\* The first exception raised in statement order, else the outputs.
ThreadOutcome(N, F, T, material_cost, machine_cost, labor_cost, tooling_cost, total_cost) ==
    IF IsErr(T) THEN ThreadRaised(T.t)
    ELSE IF IsErr(total_cost) THEN ThreadRaised(total_cost.t)
    ELSE ThreadReturned(N, F, T, material_cost, machine_cost, labor_cost,
                        tooling_cost, total_cost)

ThreadCosts(t, N, F, T) ==
    CHOOSE out \in UNION
        {{ThreadOutcome(N, F, T, material_cost, machine_cost, labor_cost,
                        tooling_cost, total_cost) :
            total_cost \in {ThreadTotal(material_cost, machine_cost, labor_cost,
                                        tooling_cost)}} :
            material_cost \in {ThreadMaterial(t.volume, t.density, t.cost_per_kg)},
            machine_cost \in {RateCost(t.machine_rate, T)},
            labor_cost \in {RateCost(t.operator_rate, T)},
            tooling_cost \in {Div(t.tool_cost, t.tool_life_parts)}} : TRUE

ThreadCalculation(t) ==
    CHOOSE out \in UNION UNION
        {{{ThreadCosts(t, N, F, T) :
            T \in {RollingTime(t.L, F)}} :
            F \in {Mul(N, t.P)}} :
            N \in {RollingRPM(t.S, t.D)}} : TRUE

ThreadInputs ==
    [D : {Num(-10), Num(0), Num(10)}, P : {Num(0), Frac(3, 2)},
     L : {Num(0), Num(20)}, S : {Num(0), Num(20)},
     density : {Frac(785, 100)}, cost_per_kg : {Num(1)}, volume : {Num(100)},
     machine_rate : {Num(0), Num(20)}, operator_rate : {Num(15)},
     tool_cost : {Num(100)}, tool_life_parts : {Num(0), Num(1000)}]

InitThread ==
    /\ tin \in ThreadInputs
    /\ tout = NoThread
    /\ args = Defaults /\ res = NoCall /\ resNew = NoCall
    /\ IdleUI

RunThread ==
    /\ tout = NoThread
    /\ tout' = ThreadCalculation(tin)
    /\ UNCHANGED <<tin, turnVars, uiVars>>

NextThread == RunThread

SpecThread == InitThread /\ [][NextThread]_vars

\* C6: a thread input with a zero divisor (majorDiameter = 0, rollingSpeed =
\* 0 or pitch = 0, toolLifeParts = 0) fails with a division-by-zero error
\* and produces no outputs, never an infinite or nan value.
ZeroDivisor(t) ==
    IsZero(t.D) \/ IsZero(t.S) \/ IsZero(t.P) \/ IsZero(t.tool_life_parts)

C6_ThreadUnguarded ==
    (tout # NoThread /\ ZeroDivisor(tin)) => tout = ThreadRaised("ZeroDivisionError")

C6_Witness ==
    /\ tout # NoThread
    /\ IsZero(tin.S) /\ ~IsZero(tin.D) /\ ~IsZero(tin.P) /\ ~IsZero(tin.tool_life_parts)
    /\ tout.err = "ZeroDivisionError"

=============================================================================
